---- MODULE Spec2Model ----
(***************************************************************************)
(* Severity classification rule engine of the 5G gNB/OAI log tools         *)
(* (analyze_logs.py, classify_and_organize.py), their batch drivers, the   *)
(* log combination and categories of categorize_errors.py, and the case    *)
(* merging of merge_case_logs.py.                                          *)
(*                                                                         *)
(* A Python str is a sequence of tokens: each token is a fragment of text  *)
(* that the regular expressions of the catalog either match as a whole or  *)
(* not at all; the line break is the token "\n".  A regular expression is  *)
(* a sequence of atoms over tokens.  A Python dict is its sequence of      *)
(* (key, value) items in insertion order, or a function for the metadata.  *)
(* A confidence is kept in hundredths (0.95 is 95).                        *)
(***************************************************************************)
EXTENDS Integers, Sequences, FiniteSets, TLC

(***************************************************************************)
(* Text                                                                    *)
(***************************************************************************)
NL == "\n"

\* str.lower() on the fragments that carry upper-case letters; every other
\* fragment of the model is its own lower-case form.
LowerTable ==
    ("Assertion" :> "assertion") @@ ("Assert_Exit_" :> "assert_exit_")
 @@ ("Exiting execution" :> "exiting execution")
 @@ ("Segmentation fault" :> "segmentation fault")
 @@ ("ERROR" :> "error") @@ ("Error" :> "error") @@ ("CRITICAL" :> "critical")
 @@ ("Connection" :> "connection")
 @@ ("RA procedure" :> "ra procedure") @@ ("RRC" :> "rrc")
 @@ ("Registration" :> "registration") @@ ("PDU" :> "pdu")
 @@ ("Session" :> "session") @@ ("UE" :> "ue")
 @@ (" Establishment Accept" :> " establishment accept")
 @@ ("_CONNECTED reached" :> "_connected reached")
 @@ ("CB" :> "cb") @@ ("IPv4" :> "ipv4") @@ ("Received" :> "received")
 @@ ("[PHY] frame" :> "[phy] frame") @@ ("[NR_MAC]" :> "[nr_mac]")
 @@ ("Log file not found." :> "log file not found.")
 @@ ("num_tx >= XP" :> "num_tx >= xp") @@ ("gtpInst > 0" :> "gtpinst > 0")
 @@ ("CONNECT" :> "connect") @@ (" TO" :> " to") @@ ("FAILED" :> "failed")
 @@ (", ERRNO" :> ", errno") @@ ("Case_" :> "case_")

Lower(t) == IF t \in DOMAIN LowerTable THEN LowerTable[t] ELSE t

\* Character classes of the expressions, by fragment.
IsSpace(t) == t \in {" ", NL}
IsDigitsDots(t) == t \in {"10.0.0.5", "127.0.0.1", "111", "128", "."}
DigitValue ==
    ("0" :> 0) @@ ("1" :> 1) @@ ("2" :> 2) @@ ("3" :> 3) @@ ("4" :> 4)
 @@ ("5" :> 5) @@ ("6" :> 6) @@ ("7" :> 7) @@ ("8" :> 8) @@ ("9" :> 9)
IsDigit(t) == t \in DOMAIN DigitValue

\* Atoms of a regular expression.
Lit(s) == [k |-> "lit", s |-> s]
DotStar == [k |-> "dotstar", s |-> ""]
SpacePlus == [k |-> "space+", s |-> ""]
DigitsDotsPlus == [k |-> "digits+", s |-> ""]
NotRParenPlus == [k |-> "notrparen+", s |-> ""]
DigitPlus == [k |-> "digit+", s |-> ""]

InClass(a, t) ==
    CASE a.k = "dotstar" -> t # NL
      [] a.k = "space+" -> IsSpace(t)
      [] a.k = "digits+" -> IsDigitsDots(t)
      [] a.k = "notrparen+" -> t # ")"
      [] a.k = "digit+" -> IsDigit(t)
      [] OTHER -> FALSE

MinRun(a) == IF a.k = "dotstar" THEN 0 ELSE 1

\* The positions j such that text[i..j-1] is a run of the class of atom a.
RunEnds(a, text, i) ==
    {j \in (i + MinRun(a))..(Len(text) + 1) :
        \A m \in i..(j - 1) : InClass(a, text[m])}

\* The positions at which a match of atoms[k..] that starts at i can end.
RECURSIVE MatchEnds(_, _, _, _, _)
MatchEnds(atoms, k, text, i, ignorecase) ==
    IF k > Len(atoms) THEN {i}
    ELSE IF atoms[k].k = "lit"
    THEN IF /\ i <= Len(text)
            /\ IF ignorecase THEN Lower(text[i]) = Lower(atoms[k].s)
                             ELSE text[i] = atoms[k].s
         THEN MatchEnds(atoms, k + 1, text, i + 1, ignorecase)
         ELSE {}
    ELSE UNION {MatchEnds(atoms, k + 1, text, j, ignorecase) :
                   j \in RunEnds(atoms[k], text, i)}

SetMax(S) == CHOOSE x \in S : \A y \in S : y <= x
SetMin(S) == CHOOSE x \in S : \A y \in S : x <= y

NoMatch == [found |-> FALSE, start |-> 0, end |-> 0]

\* re.search from position pos on: the leftmost match, its repetitions
\* greedy (every expression here has at most one repetition before its last
\* literal, so the greedy match is the longest one).  end is exclusive.
re_search_from(atoms, text, pos, ignorecase) ==
    LET starts == {i \in pos..(Len(text) + 1) :
                      MatchEnds(atoms, 1, text, i, ignorecase) # {}}
    IN IF starts = {} THEN NoMatch
       ELSE LET s == SetMin(starts)
            IN [found |-> TRUE, start |-> s,
                end |-> SetMax(MatchEnds(atoms, 1, text, s, ignorecase))]

re_search(atoms, text, ignorecase) == re_search_from(atoms, text, 1, ignorecase)

\* len(re.findall(...)): the non-overlapping matches, left to right.
RECURSIVE re_findall_count(_, _, _)
re_findall_count(atoms, text, pos) ==
    LET m == re_search_from(atoms, text, pos, FALSE)
    IN IF ~m.found THEN 0
       ELSE 1 + re_findall_count(atoms, text,
                                 IF m.end > m.start THEN m.end ELSE m.end + 1)

\* "needle in text" of Python: a case-sensitive search of a literal.
Literal(toks) == [i \in 1..Len(toks) |-> Lit(toks[i])]
str_in(toks, text) == re_search(Literal(toks), text, FALSE).found

\* The str of a sequence of fragments.
RECURSIVE Str(_)
Str(toks) == IF toks = <<>> THEN "" ELSE Head(toks) \o Str(Tail(toks))

\* "\n".join(parts)
RECURSIVE str_join(_)
str_join(parts) ==
    IF parts = <<>> THEN <<>>
    ELSE IF Len(parts) = 1 THEN parts[1]
    ELSE parts[1] \o <<NL>> \o str_join(Tail(parts))

(***************************************************************************)
(* Pattern catalog: LogAnalyzer.__init__ / LogClassifier.__init__          *)
(***************************************************************************)
Pattern(src, atoms) == [src |-> src, atoms |-> atoms]

crash_patterns == <<
    Pattern("Assertion.*failed", <<Lit("Assertion"), DotStar, Lit("failed")>>),
    Pattern("Assert_Exit_", <<Lit("Assert_Exit_")>>),
    Pattern("Exiting execution", <<Lit("Exiting execution")>>),
    Pattern("exit_fun", <<Lit("exit_fun")>>),
    Pattern("Segmentation fault", <<Lit("Segmentation fault")>>),
    Pattern("config_execcheck.*failed",
            <<Lit("config_execcheck"), DotStar, Lit("failed")>>),
    Pattern("fatal", <<Lit("fatal")>>),
    Pattern("abort\\(\\)", <<Lit("abort()")>>),
    Pattern("core dump", <<Lit("core dump")>>) >>

abnormal_patterns == <<
    Pattern("ERROR", <<Lit("ERROR")>>),
    Pattern("CRITICAL", <<Lit("CRITICAL")>>),
    Pattern("failed.*initialization",
            <<Lit("failed"), DotStar, Lit("init"), Lit("ialization")>>),
    Pattern("failed.*init", <<Lit("failed"), DotStar, Lit("init")>>),
    Pattern("Connection.*failed", <<Lit("Connection"), DotStar, Lit("failed")>>),
    Pattern("timeout.*exceeded", <<Lit("timeout"), DotStar, Lit("exceeded")>>),
    Pattern("retry.*limit", <<Lit("retry"), DotStar, Lit("limit")>>) >>

ue_failure_patterns == <<
    Pattern("RA procedure.*failed",
            <<Lit("RA procedure"), DotStar, Lit("failed")>>),
    Pattern("RRC.*reject", <<Lit("RRC"), DotStar, Lit("reject")>>),
    Pattern("Registration.*reject",
            <<Lit("Registration"), DotStar, Lit("reject")>>),
    Pattern("PDU.*session.*failed",
            <<Lit("PDU"), DotStar, Lit("session"), DotStar, Lit("failed")>>),
    Pattern("attach.*failed", <<Lit("attach"), DotStar, Lit("failed")>>),
    Pattern("connection.*reject",
            <<Lit("connection"), DotStar, Lit("reject")>>),
    Pattern("UE.*connection.*failed",
            <<Lit("UE"), DotStar, Lit("connection"), DotStar, Lit("failed")>>) >>

PduSessionAccept == <<"PDU", " ", "Session", " Establishment Accept">>
RrcConnectedReached == <<"RRC", "_CONNECTED reached">>
CbraSucceeded == <<"CB", "RA procedure", " succeeded">>

success_patterns == <<
    Pattern("PDU Session Establishment Accept", Literal(PduSessionAccept)),
    Pattern("RA procedure succeeded",
            <<Lit("RA procedure"), Lit(" succeeded")>>),
    Pattern("RRC_CONNECTED reached", Literal(RrcConnectedReached)),
    Pattern("CBRA procedure succeeded", Literal(CbraSucceeded)),
    Pattern("successfully configured.*IPv4",
            <<Lit("successfully configured"), DotStar, Lit("IPv4")>>),
    Pattern("Received PDU Session Establishment Accept",
            Literal(<<"Received", " ">> \o PduSessionAccept)) >>

\* The instance a constructor call leaves behind.
LogAnalyzer ==
    [crash_patterns |-> crash_patterns,
     abnormal_patterns |-> abnormal_patterns,
     ue_failure_patterns |-> ue_failure_patterns,
     success_patterns |-> success_patterns]

\* The other expressions of classify_severity.
AssertionExpr ==
    <<Lit("Assertion"), Lit(" "), Lit("("), NotRParenPlus, Lit(")"), Lit(" "),
      Lit("failed")>>
IPv4Expr == <<Lit("IPv4"), SpacePlus, DigitsDotsPlus>>
ConnectFailedExpr_each_failed == <<Lit("failed")>>

ConnectFailedExpr == <<Lit("connect"), Lit("()"), DotStar, Lit("failed")>>

(***************************************************************************)
(* check_patterns: the sources of the patterns that match, in list order   *)
(***************************************************************************)
RECURSIVE MatchingFrom(_, _, _)
MatchingFrom(text, patterns, n) ==
    IF n > Len(patterns) THEN <<>>
    ELSE (IF re_search(patterns[n].atoms, text, TRUE).found
          THEN <<patterns[n].src>> ELSE <<>>)
         \o MatchingFrom(text, patterns, n + 1)

check_patterns(text, patterns) ==
    LET matches == MatchingFrom(text, patterns, 1)
    IN [any |-> Len(matches) > 0, matches |-> matches]

(***************************************************************************)
(* Bundles (the parsed JSON of one case)                                   *)
(***************************************************************************)
EmptyDict == [k \in {} |-> ""]
dict_get(d, k, default) == IF k \in DOMAIN d THEN d[k] ELSE default

\* One item of the "logs" dict: its value is a str (text) or a list of str
\* (items).
StrItem(key, text) == [key |-> key, type |-> "str", text |-> text, items |-> <<>>]
ListItem(key, items) == [key |-> key, type |-> "list", text |-> <<>>, items |-> items]

\* log_data.get("logs", {}).get("ue.stdout.log", ""): the value under the key.
UeLogItems(log_data) ==
    IF "logs" \in DOMAIN log_data
    THEN SelectSeq(log_data["logs"], LAMBDA it : it.key = "ue.stdout.log")
    ELSE <<>>
ue_log_of_first_stream(log_data) ==
    IF "logs" \in DOMAIN log_data /\ log_data["logs"] # <<>>
    THEN log_data["logs"][1].text ELSE <<>>

ue_log_of(log_data) ==
    IF UeLogItems(log_data) = <<>> THEN <<>> ELSE UeLogItems(log_data)[1].text

(***************************************************************************)
(* classify_severity                                                       *)
(***************************************************************************)
\* all_logs += log_content + "\n" over the items, in dict order; a list
\* value makes the str concatenation raise TypeError.
RECURSIVE CombineFrom(_, _)
CombineFrom(items, n) ==
    IF n > Len(items) THEN [exc |-> "", text |-> <<>>]
    ELSE IF items[n].type # "str" THEN [exc |-> "TypeError", text |-> <<>>]
    ELSE LET rest == CombineFrom(items, n + 1)
         IN IF rest.exc # "" THEN rest
            ELSE [exc |-> "", text |-> items[n].text \o <<NL>> \o rest.text]

combine_logs(log_data) ==
    IF "logs" \in DOMAIN log_data THEN CombineFrom(log_data["logs"], 1)
    ELSE [exc |-> "", text |-> <<>>]

Raised(exc) == [exc |-> exc]
Verdict(severity, root_cause, evidence, confidence) ==
    [exc |-> "", severity |-> severity, root_cause |-> root_cause,
     evidence |-> evidence, confidence |-> confidence]

\* The locals every step of the cascade reads.
Locals(self, log_data, all_logs) ==
    LET metadata == dict_get(log_data, "original_json_data", EmptyDict)
    IN [self |-> self, log_data |-> log_data, all_logs |-> all_logs,
        filename |-> dict_get(metadata, "filename", "unknown"),
        affected_module |-> dict_get(metadata, "affected_module", "Unknown"),
        error_type |-> dict_get(metadata, "error_type", ""),
        impact_desc |-> dict_get(metadata, "impact_description", "")]

\* has_success, success_evidence
success_of(c) == check_patterns(c.all_logs, c.self.success_patterns)

\* success_count: the four sub-signals present in the corpus.
BoolInt(b) == IF b THEN 1 ELSE 0
success_count_of(all_logs) ==
      BoolInt(str_in(PduSessionAccept, all_logs))
    + BoolInt(str_in(RrcConnectedReached, all_logs))
    + BoolInt(str_in(CbraSucceeded, all_logs))
    + BoolInt(re_search(IPv4Expr, all_logs, FALSE).found)

uncertain_step_without_marker(c) ==
    Verdict(0, <<"cannot decide, log information insufficient", c.filename>>,
            <<>>, 30)

\* Uncertain case.
uncertain_step(c) ==
    Verdict(0, <<"cannot decide, log information insufficient", c.filename>>,
            <<"Insufficient log information">>, 30)

\* If reached here with success patterns, mark as success.
residual_success_step(c) ==
    IF success_of(c).any
    THEN Verdict(0, <<"no error, signs of a successful connection", c.filename>>,
                 success_of(c).matches, 70)
    ELSE uncertain_step(c)

metadata_step_success_first(c) ==
    IF success_of(c).any THEN residual_success_step(c)
    ELSE IF c.error_type # ""
    THEN Verdict(2, <<"possibly abnormal, config error", c.error_type, c.filename>>,
                 <<"Config error: " \o c.error_type, "Impact: " \o c.impact_desc>>,
                 50)
    ELSE residual_success_step(c)

\* Default: error_type in the metadata but no clear classification.
metadata_step(c) ==
    IF c.error_type # ""
    THEN Verdict(2, <<"possibly abnormal, config error", c.error_type, c.filename>>,
                 <<"Config error: " \o c.error_type, "Impact: " \o c.impact_desc>>,
                 50)
    ELSE residual_success_step(c)

connect_attempts_step_from_ten(c) ==
    LET ue_log == ue_log_of(c.log_data)
        connect_failures == re_findall_count(ConnectFailedExpr, ue_log, 1)
    IN IF /\ str_in(<<"connect", "()", " to">>, ue_log)
          /\ str_in(<<"failed", ", errno">>, ue_log)
          /\ ~success_of(c).any
          /\ connect_failures >= 10
       THEN Verdict(3, <<"UE cannot connect to DU, retries",
                         ToString(connect_failures)>>,
                    <<ToString(connect_failures) \o " connection attempts failed">>,
                    80)
       ELSE metadata_step(c)

connect_attempts_step_after_metadata(c) ==
    LET ue_log == ue_log_of(c.log_data)
        connect_failures == re_findall_count(ConnectFailedExpr, ue_log, 1)
    IN IF c.error_type # "" THEN metadata_step(c)
       ELSE IF /\ str_in(<<"connect", "()", " to">>, ue_log)
               /\ str_in(<<"failed", ", errno">>, ue_log)
               /\ ~success_of(c).any
               /\ connect_failures > 10
       THEN Verdict(3, <<"UE cannot connect to DU, retries",
                         ToString(connect_failures)>>,
                    <<ToString(connect_failures) \o " connection attempts failed">>,
                    80)
       ELSE metadata_step(c)

connect_attempts_step_ignoring_success(c) ==
    LET ue_log == ue_log_of(c.log_data)
        connect_failures == re_findall_count(ConnectFailedExpr, ue_log, 1)
    IN IF /\ str_in(<<"connect", "()", " to">>, ue_log)
          /\ str_in(<<"failed", ", errno">>, ue_log)
          /\ connect_failures > 10
       THEN Verdict(3, <<"UE cannot connect to DU, retries",
                         ToString(connect_failures)>>,
                    <<ToString(connect_failures) \o " connection attempts failed">>,
                    80)
       ELSE metadata_step(c)

connect_attempts_step_confidence_by_count(c) ==
    LET ue_log == ue_log_of(c.log_data)
        connect_failures == re_findall_count(ConnectFailedExpr, ue_log, 1)
    IN IF /\ str_in(<<"connect", "()", " to">>, ue_log)
          /\ str_in(<<"failed", ", errno">>, ue_log)
          /\ ~success_of(c).any
          /\ connect_failures > 10
       THEN Verdict(3, <<"UE cannot connect to DU, retries",
                         ToString(connect_failures)>>,
                    <<ToString(connect_failures) \o " connection attempts failed">>,
                    70 + connect_failures)
       ELSE metadata_step(c)

\* Check for connection attempts in the UE log.
connect_attempts_step(c) ==
    LET ue_log == ue_log_of(c.log_data)
        connect_failures == re_findall_count(ConnectFailedExpr, ue_log, 1)
    IN IF /\ str_in(<<"connect", "()", " to">>, ue_log)
          /\ str_in(<<"failed", ", errno">>, ue_log)
          /\ ~success_of(c).any
          /\ connect_failures > 10
       THEN Verdict(3, <<"UE cannot connect to DU, retries",
                         ToString(connect_failures)>>,
                    <<ToString(connect_failures) \o " connection attempts failed">>,
                    80)
       ELSE metadata_step(c)

abnormal_step_unless_error_type(c) ==
    LET abnormal == check_patterns(c.all_logs, c.self.abnormal_patterns)
    IN IF abnormal.any /\ c.error_type = ""
       THEN Verdict(2, <<"component abnormal in", c.filename, c.affected_module,
                         c.impact_desc>>,
                    abnormal.matches, 70)
       ELSE connect_attempts_step(c)

\* Priority 3: abnormal but no crash (severity 2).
abnormal_step(c) ==
    LET abnormal == check_patterns(c.all_logs, c.self.abnormal_patterns)
    IN IF abnormal.any
       THEN Verdict(2, <<"component abnormal in", c.filename, c.affected_module,
                         c.impact_desc>>,
                    abnormal.matches, 70)
       ELSE connect_attempts_step(c)

ue_failure_step_after_abnormal(c) ==
    LET ue_failure == check_patterns(c.all_logs, c.self.ue_failure_patterns)
        abnormal == check_patterns(c.all_logs, c.self.abnormal_patterns)
    IN IF abnormal.any
       THEN Verdict(2, <<"component abnormal in", c.filename, c.affected_module,
                         c.impact_desc>>,
                    abnormal.matches, 70)
       ELSE IF ue_failure.any
       THEN Verdict(3, <<"UE connection failure detected in module",
                         c.affected_module>>,
                    ue_failure.matches, 85)
       ELSE connect_attempts_step(c)

\* Priority 2: UE connection failures (severity 3).
ue_failure_step(c) ==
    LET ue_failure == check_patterns(c.all_logs, c.self.ue_failure_patterns)
    IN IF ue_failure.any
       THEN Verdict(3, <<"UE connection failure detected in module",
                         c.affected_module>>,
                    ue_failure.matches, 85)
       ELSE abnormal_step(c)

\* The evidence of the corroborated success verdict.
success_evidence_of(matches, all_logs) ==
    LET ipv4_configured == re_search(IPv4Expr, all_logs, FALSE)
    IN IF ipv4_configured.found
       THEN Append(matches,
                   "IPv4 configured: " \o Str(SubSeq(all_logs,
                                                     ipv4_configured.start,
                                                     ipv4_configured.end - 1)))
       ELSE matches

success_step_above_two(c) ==
    IF success_of(c).any /\ success_count_of(c.all_logs) > 2
    THEN Verdict(0, <<"no error, UE connected and got an IP in", c.filename>>,
                 success_evidence_of(success_of(c).matches, c.all_logs), 90)
    ELSE ue_failure_step(c)

success_step_single(c) ==
    IF success_of(c).any /\ success_count_of(c.all_logs) >= 1
    THEN Verdict(0, <<"no error, UE connected and got an IP in", c.filename>>,
                 success_evidence_of(success_of(c).matches, c.all_logs), 90)
    ELSE ue_failure_step(c)

\* Check for success patterns: two of the four indicators.
success_step(c) ==
    IF success_of(c).any /\ success_count_of(c.all_logs) >= 2
    THEN Verdict(0, <<"no error, UE connected and got an IP in", c.filename>>,
                 success_evidence_of(success_of(c).matches, c.all_logs), 90)
    ELSE ue_failure_step(c)

crash_evidence_of_patterns_only(matches, all_logs) == matches

\* The evidence of the crash verdict.
crash_evidence_of(matches, all_logs) ==
    LET assertion_match == re_search(AssertionExpr, all_logs, FALSE)
    IN IF /\ str_in(<<"Assertion">>, all_logs)
          /\ str_in(<<"failed">>, all_logs)
          /\ assertion_match.found
       THEN Append(matches,
                   "Assertion: " \o Str(SubSeq(all_logs,
                                               assertion_match.start + 3,
                                               assertion_match.end - 4)))
       ELSE matches

crash_step_unless_success(c) ==
    LET crash == check_patterns(c.all_logs, c.self.crash_patterns)
    IN IF crash.any /\ ~success_of(c).any
       THEN Verdict(1, <<"component crash in", c.filename, "error type",
                         c.error_type>>,
                    crash_evidence_of(crash.matches, c.all_logs), 95)
       ELSE success_step(c)

\* Priority 1: crashes (severity 1).
crash_step(c) ==
    LET crash == check_patterns(c.all_logs, c.self.crash_patterns)
    IN IF crash.any
       THEN Verdict(1, <<"component crash in", c.filename, "error type",
                         c.error_type>>,
                    crash_evidence_of(crash.matches, c.all_logs), 95)
       ELSE success_step(c)

\* The value classify_severity returns (or the exception it raises) for
\* log_data on the instance self.
classify_severity(self, log_data) ==
    LET combined == combine_logs(log_data)
    IN IF combined.exc # "" THEN Raised(combined.exc)
       ELSE crash_step(Locals(self, log_data, combined.text))

self_after_dropping_success_patterns(self, log_data) ==
    [self EXCEPT !.success_patterns = <<>>]

self_after_dropping_crash_patterns(self, log_data) ==
    [self EXCEPT !.crash_patterns = <<>>]

\* The instance after a call of classify_severity: neither it nor
\* check_patterns assigns an attribute of self.
self_after(self, log_data) == self

(***************************************************************************)
(* classify_and_organize.py: the catalog, check_patterns and               *)
(* classify_severity of LogClassifier                                      *)
(***************************************************************************)
LogClassifier_crash_patterns == <<
    Pattern("Assertion.*failed", <<Lit("Assertion"), DotStar, Lit("failed")>>),
    Pattern("Assert_Exit_", <<Lit("Assert_Exit_")>>),
    Pattern("Exiting execution", <<Lit("Exiting execution")>>),
    Pattern("exit_fun", <<Lit("exit_fun")>>),
    Pattern("Segmentation fault", <<Lit("Segmentation fault")>>),
    Pattern("config_execcheck.*failed",
            <<Lit("config_execcheck"), DotStar, Lit("failed")>>),
    Pattern("fatal", <<Lit("fatal")>>),
    Pattern("abort\\(\\)", <<Lit("abort()")>>),
    Pattern("core dump", <<Lit("core dump")>>) >>

LogClassifier_abnormal_patterns == <<
    Pattern("ERROR", <<Lit("ERROR")>>),
    Pattern("CRITICAL", <<Lit("CRITICAL")>>),
    Pattern("failed.*initialization",
            <<Lit("failed"), DotStar, Lit("init"), Lit("ialization")>>),
    Pattern("failed.*init", <<Lit("failed"), DotStar, Lit("init")>>),
    Pattern("Connection.*failed", <<Lit("Connection"), DotStar, Lit("failed")>>),
    Pattern("timeout.*exceeded", <<Lit("timeout"), DotStar, Lit("exceeded")>>),
    Pattern("retry.*limit", <<Lit("retry"), DotStar, Lit("limit")>>) >>

LogClassifier_ue_failure_patterns == <<
    Pattern("RA procedure.*failed",
            <<Lit("RA procedure"), DotStar, Lit("failed")>>),
    Pattern("RRC.*reject", <<Lit("RRC"), DotStar, Lit("reject")>>),
    Pattern("Registration.*reject",
            <<Lit("Registration"), DotStar, Lit("reject")>>),
    Pattern("PDU.*session.*failed",
            <<Lit("PDU"), DotStar, Lit("session"), DotStar, Lit("failed")>>),
    Pattern("attach.*failed", <<Lit("attach"), DotStar, Lit("failed")>>),
    Pattern("connection.*reject",
            <<Lit("connection"), DotStar, Lit("reject")>>),
    Pattern("UE.*connection.*failed",
            <<Lit("UE"), DotStar, Lit("connection"), DotStar, Lit("failed")>>) >>

LogClassifier_success_patterns == <<
    Pattern("PDU Session Establishment Accept",
            <<Lit("PDU"), Lit(" "), Lit("Session"), Lit(" Establishment Accept")>>),
    Pattern("RA procedure succeeded",
            <<Lit("RA procedure"), Lit(" succeeded")>>),
    Pattern("RRC_CONNECTED reached", <<Lit("RRC"), Lit("_CONNECTED reached")>>),
    Pattern("CBRA procedure succeeded",
            <<Lit("CB"), Lit("RA procedure"), Lit(" succeeded")>>),
    Pattern("successfully configured.*IPv4",
            <<Lit("successfully configured"), DotStar, Lit("IPv4")>>),
    Pattern("Received PDU Session Establishment Accept",
            <<Lit("Received"), Lit(" "), Lit("PDU"), Lit(" "), Lit("Session"),
              Lit(" Establishment Accept")>>) >>

\* The instance a constructor call of LogClassifier leaves behind.
LogClassifier ==
    [crash_patterns |-> LogClassifier_crash_patterns,
     abnormal_patterns |-> LogClassifier_abnormal_patterns,
     ue_failure_patterns |-> LogClassifier_ue_failure_patterns,
     success_patterns |-> LogClassifier_success_patterns]

\* LogClassifier.check_patterns
LogClassifier_check_patterns(text, patterns) ==
    LET matching == SelectSeq(patterns,
                              LAMBDA p : re_search(p.atoms, text, TRUE).found)
        matches == [n \in 1..Len(matching) |-> matching[n].src]
    IN [any |-> Len(matches) > 0, matches |-> matches]

\* all_logs of LogClassifier.classify_severity, for str values.
RECURSIVE LogClassifier_all_logs(_)
LogClassifier_all_logs(items) ==
    IF items = <<>> THEN <<>>
    ELSE Head(items).text \o <<NL>> \o LogClassifier_all_logs(Tail(items))

LogClassifier_many_failures_from_ten(connect_failures) == connect_failures >= 10

\* if connect_failures > 10
LogClassifier_many_failures(connect_failures) == connect_failures > 10

\* LogClassifier.classify_severity: what it returns (or raises) for log_data
\* on the instance self.
LogClassifier_classify_severity(self, log_data) ==
    LET items == IF "logs" \in DOMAIN log_data THEN log_data["logs"] ELSE <<>>
        all_logs == LogClassifier_all_logs(items)
        metadata == dict_get(log_data, "original_json_data", EmptyDict)
        name == dict_get(metadata, "filename", "unknown")
        affected_module == dict_get(metadata, "affected_module", "Unknown")
        error_type == dict_get(metadata, "error_type", "")
        impact_desc == dict_get(metadata, "impact_description", "")
        crash == LogClassifier_check_patterns(all_logs, self.crash_patterns)
        assertion_match == re_search(AssertionExpr, all_logs, FALSE)
        success == LogClassifier_check_patterns(all_logs, self.success_patterns)
        ipv4_configured == re_search(IPv4Expr, all_logs, FALSE)
        success_count ==
              BoolInt(str_in(<<"PDU", " ", "Session", " Establishment Accept">>,
                             all_logs))
            + BoolInt(str_in(<<"RRC", "_CONNECTED reached">>, all_logs))
            + BoolInt(str_in(<<"CB", "RA procedure", " succeeded">>, all_logs))
            + BoolInt(ipv4_configured.found)
        ue_failure ==
            LogClassifier_check_patterns(all_logs, self.ue_failure_patterns)
        abnormal == LogClassifier_check_patterns(all_logs, self.abnormal_patterns)
        ue_items == SelectSeq(items, LAMBDA it : it.key = "ue.stdout.log")
        ue_log == IF ue_items = <<>> THEN <<>> ELSE ue_items[1].text
        connect_failures == re_findall_count(ConnectFailedExpr, ue_log, 1)
    IN IF \E n \in 1..Len(items) : items[n].type # "str"
       THEN Raised("TypeError")
       ELSE IF crash.any
       THEN Verdict(1, <<"component crash in", name, "error type", error_type>>,
                    IF /\ str_in(<<"Assertion">>, all_logs)
                       /\ str_in(<<"failed">>, all_logs)
                       /\ assertion_match.found
                    THEN Append(crash.matches,
                                "Assertion: "
                                \o Str(SubSeq(all_logs, assertion_match.start + 3,
                                              assertion_match.end - 4)))
                    ELSE crash.matches,
                    95)
       ELSE IF success.any /\ success_count >= 2
       THEN Verdict(0, <<"no error, UE connected and got an IP in", name>>,
                    IF ipv4_configured.found
                    THEN Append(success.matches,
                                "IPv4 configured: "
                                \o Str(SubSeq(all_logs, ipv4_configured.start,
                                              ipv4_configured.end - 1)))
                    ELSE success.matches,
                    90)
       ELSE IF ue_failure.any
       THEN Verdict(3, <<"UE connection failure detected in module",
                         affected_module>>,
                    ue_failure.matches, 85)
       ELSE IF abnormal.any
       THEN Verdict(2, <<"component abnormal in", name, affected_module,
                         impact_desc>>,
                    abnormal.matches, 70)
       ELSE IF /\ str_in(<<"connect", "()", " to">>, ue_log)
               /\ str_in(<<"failed", ", errno">>, ue_log)
               /\ ~success.any
               /\ LogClassifier_many_failures(connect_failures)
       THEN Verdict(3, <<"UE cannot connect to DU, retries",
                         ToString(connect_failures)>>,
                    <<ToString(connect_failures) \o " connection attempts failed">>,
                    80)
       ELSE IF error_type # ""
       THEN Verdict(2, <<"possibly abnormal, config error", error_type, name>>,
                    <<"Config error: " \o error_type, "Impact: " \o impact_desc>>,
                    50)
       ELSE IF success.any
       THEN Verdict(0, <<"no error, signs of a successful connection", name>>,
                    success.matches, 70)
       ELSE Verdict(0, <<"cannot decide, log information insufficient", name>>,
                    <<"Insufficient log information">>, 30)

(***************************************************************************)
(* categorize_errors.py: PATTERNS, classify_log and the combination of the *)
(* log parts in main                                                       *)
(***************************************************************************)
GtpPatterns == <<
    <<Lit("Assertion"), DotStar, Lit("gtpInst > 0")>>,
    <<Lit("cannot create DU F1-U GTP module")>>,
    <<Lit("sctp_handle_new_association_req")>>,
    <<Lit("Assertion"), DotStar, Lit("status == 0")>> >>
ArfcnPatterns == <<
    <<Lit("Assertion"), DotStar, Lit("freq"), DotStar, Lit("3000000000")>>,
    <<Lit("Assertion"), DotStar, Lit("nrarfcn >= N_OFFs")>>,
    <<Lit("Assertion"), DotStar, Lit("delta_f_RA_PRACH < 6")>>,
    <<Lit("Assertion"), DotStar, Lit("subcarrier_offset")>> >>
EncodingPatterns == <<
    <<Lit("Assertion"), DotStar, Lit("enc_rval.encoded > 0")>>,
    <<Lit("Assertion"), DotStar, Lit("bw_index")>> >>
SctpPatterns == <<
    <<Lit("Connection refused")>>,
    <<Lit("connect"), DotStar, Lit("failed")>>,
    <<Lit("errno(111)")>> >>
DnsPatterns == <<
    <<Lit("getaddrinfo error")>>,
    <<Lit("Name or service not known")>> >>
GeneralCrashPatterns == <<
    <<Lit("Assertion"), DotStar, Lit("failed")>>,
    <<Lit("Segmentation fault")>>,
    <<Lit("dumping core")>>,
    <<Lit("exiting with status 1")>>,
    <<Lit("AS_ASSERT")>>,
    <<Lit("Exiting execution")>>,
    <<Lit("Exiting OAI softmodem")>>,
    <<Lit("_Assert_Exit_")>> >>
ConfigPatterns == <<
    <<Lit("syntax error")>>,
    <<Lit("unknown option")>>,
    <<Lit("invalid value")>>,
    <<Lit("config_execcheck")>>,
    <<Lit("Failed to parse")>>,
    <<Lit("Error in configuration")>>,
    <<Lit("mismatch in"), DotStar, Lit("configuration")>> >>
MismatchPatterns == <<
    <<Lit("PLMN"), DotStar, Lit("mismatch")>>,
    <<Lit("CellIdentity"), DotStar, Lit("mismatch")>>,
    <<Lit("TAC"), DotStar, Lit("mismatch")>>,
    <<Lit("Network"), DotStar, Lit("configuration"), DotStar, Lit("mismatch")>>,
    <<Lit("Dropping"), DotStar, Lit("due to"), DotStar, Lit("mismatch")>> >>
HardwarePatterns == <<
    <<Lit("rfsimulator"), DotStar, Lit("failed")>>,
    <<Lit("features not found")>>,
    <<Lit("No radio device")>>,
    <<Lit("Failed to load"), DotStar, Lit("library")>>,
    <<Lit("Device"), DotStar, Lit("not found")>> >>

CategoryOrder_general_first == <<
    [label |-> "General Component Crash/Assertion",
     patterns |-> GeneralCrashPatterns],
    [label |-> "GTP/Interface Creation Failure", patterns |-> GtpPatterns],
    [label |-> "Radio Frequency/ARFCN Issue", patterns |-> ArfcnPatterns],
    [label |-> "Encoding/Buffer Overflow", patterns |-> EncodingPatterns],
    [label |-> "DNS/Address Resolution Error", patterns |-> DnsPatterns],
    [label |-> "Configuration/Syntax Error", patterns |-> ConfigPatterns],
    [label |-> "SCTP Connection Refused", patterns |-> SctpPatterns],
    [label |-> "Network/PLMN/Cell ID Mismatch", patterns |-> MismatchPatterns],
    [label |-> "RF/Hardware/Feature Missing", patterns |-> HardwarePatterns] >>

\* The categories in the order classify_log tries them, each with the label
\* it returns.
CategoryOrder == <<
    [label |-> "GTP/Interface Creation Failure", patterns |-> GtpPatterns],
    [label |-> "Radio Frequency/ARFCN Issue", patterns |-> ArfcnPatterns],
    [label |-> "Encoding/Buffer Overflow", patterns |-> EncodingPatterns],
    [label |-> "DNS/Address Resolution Error", patterns |-> DnsPatterns],
    [label |-> "Configuration/Syntax Error", patterns |-> ConfigPatterns],
    [label |-> "SCTP Connection Refused", patterns |-> SctpPatterns],
    [label |-> "General Component Crash/Assertion",
     patterns |-> GeneralCrashPatterns],
    [label |-> "Network/PLMN/Cell ID Mismatch", patterns |-> MismatchPatterns],
    [label |-> "RF/Hardware/Feature Missing", patterns |-> HardwarePatterns] >>

AnyMatches(patterns, text) ==
    \E n \in 1..Len(patterns) : re_search(patterns[n], text, TRUE).found

RECURSIVE FirstCategory(_, _)
FirstCategory(log_text, n) ==
    IF n > Len(CategoryOrder) THEN "Unknown/Other"
    ELSE IF AnyMatches(CategoryOrder[n].patterns, log_text)
    THEN CategoryOrder[n].label
    ELSE FirstCategory(log_text, n + 1)

classify_log(log_text) ==
    IF log_text = <<>> THEN "Empty Log" ELSE FirstCategory(log_text, 1)

\* logs_combined of main: a list part is joined with "\n", a str part is
\* taken as it is, and each is followed by "\n".
RECURSIVE CombineParts(_, _)
CombineParts(items, n) ==
    IF n > Len(items) THEN <<>>
    ELSE (IF items[n].type = "list" THEN str_join(items[n].items)
          ELSE items[n].text)
         \o <<NL>> \o CombineParts(items, n + 1)

logs_combined_of(entry) ==
    IF "logs" \in DOMAIN entry THEN CombineParts(entry["logs"], 1) ELSE <<>>

category_of(entry) == classify_log(logs_combined_of(entry))

(***************************************************************************)
(* The batch drivers: analyze_file / analyze_directory of analyze_logs.py  *)
(* and the loop of classify_and_organize                                   *)
(***************************************************************************)
\* str.upper() on the characters of the filenames; a filename is the
\* sequence of its characters here.
UpperTable ==
    ("a" :> "A") @@ ("c" :> "C") @@ ("d" :> "D") @@ ("e" :> "E")
 @@ ("j" :> "J") @@ ("k" :> "K") @@ ("n" :> "N") @@ ("o" :> "O")
 @@ ("s" :> "S") @@ ("u" :> "U") @@ ("w" :> "W") @@ ("x" :> "X")
str_upper(chars) ==
    [i \in 1..Len(chars) |->
        IF chars[i] \in DOMAIN UpperTable THEN UpperTable[chars[i]] ELSE chars[i]]

extract_component_from_filename_ue_first(chars) ==
    LET filename_upper == str_upper(chars)
    IN IF str_in(<<"U", "E">>, filename_upper) THEN "UE"
       ELSE IF str_in(<<"D", "U">>, filename_upper) THEN "DU"
       ELSE IF str_in(<<"C", "U">>, filename_upper) THEN "CU"
       ELSE "Unknown"

extract_component_from_filename(chars) ==
    LET filename_upper == str_upper(chars)
    IN IF str_in(<<"D", "U">>, filename_upper) THEN "DU"
       ELSE IF str_in(<<"C", "U">>, filename_upper) THEN "CU"
       ELSE IF str_in(<<"U", "E">>, filename_upper) THEN "UE"
       ELSE "Unknown"

\* The characters of the filenames the metadata of the bundles carry.
FilenameChars ==
    ("DU_case_001.json" :>
        <<"D", "U", "_", "c", "a", "s", "e", "_", "0", "0", "1", ".",
          "j", "s", "o", "n">>)
 @@ ("cu_case_002.json" :>
        <<"c", "u", "_", "c", "a", "s", "e", "_", "0", "0", "2", ".",
          "j", "s", "o", "n">>)
 @@ ("unknown" :> <<"u", "n", "k", "n", "o", "w", "n">>)

\* A file of the source directory, by what open and json.load make of it: it
\* cannot be opened or decoded, it is no JSON text, it is a JSON array, or it
\* is a JSON object (the bundle value).
Unreadable == [kind |-> "unreadable", value |-> EmptyDict]
NotJson == [kind |-> "text", value |-> EmptyDict]
JsonArray == [kind |-> "array", value |-> EmptyDict]
JsonObject(bundle) == [kind |-> "object", value |-> bundle]

\* with open(filepath, 'r', encoding='utf-8') as f: log_data = json.load(f)
json_load(file) ==
    CASE file.kind = "unreadable" -> Raised("OSError")
      [] file.kind = "text" -> Raised("JSONDecodeError")
      [] OTHER -> [exc |-> "", kind |-> file.kind, value |-> file.value]

\* The record of the except branch of analyze_file.
ProcessingError(filepath, e) ==
    [case_id |-> filepath, severity_stage |-> -1,
     root_cause_summary |-> <<"Error processing file", e>>,
     evidence_keywords |-> <<e>>, component |-> "Error", confidence |-> 0]

\* log_data = json.load(f) and self.classify_severity(log_data) in the try
\* blocks of the drivers: the verdict, or what was raised on the way (a JSON
\* array has no get).
load_and_classify(self, file) ==
    IF json_load(file).exc # "" THEN Raised(json_load(file).exc)
    ELSE IF file.kind # "object" THEN Raised("AttributeError")
    ELSE classify_severity(self, file.value)

\* The record analyze_file returns, given the outcome of its loading and
\* classification.
analyze_record(filepath, file, outcome) ==
    IF outcome.exc # "" THEN ProcessingError(filepath, outcome.exc)
    ELSE LET metadata == dict_get(file.value, "original_json_data", EmptyDict)
             name == dict_get(metadata, "filename", "unknown")
         IN [case_id |-> filepath,
             severity_stage |-> outcome.severity,
             root_cause_summary |-> outcome.root_cause,
             evidence_keywords |-> outcome.evidence,
             component |-> extract_component_from_filename(FilenameChars[name]),
             confidence |-> outcome.confidence]

analyze_file(self, filepath, file) ==
    analyze_record(filepath, file, load_and_classify(self, file))

\* The instance after analyze_file: classify_severity is the only method
\* called on it that reads the catalog.
self_after_file(self, file) ==
    IF json_load(file).exc = "" /\ file.kind = "object"
    THEN self_after(self, file.value) ELSE self

\* severity_labels of classify_and_organize: the folder of each severity.
organize_severity_labels ==
    (0 :> "severity_0_no_error") @@ (1 :> "severity_1_crash")
 @@ (2 :> "severity_2_abnormal") @@ (3 :> "severity_3_ue_failure")

\* evidence[:3]
FirstThree(evidence) ==
    SubSeq(evidence, 1, IF Len(evidence) < 3 THEN Len(evidence) ELSE 3)

\* The record one iteration of classify_and_organize appends for a verdict.
organize_record(rel_path, verdict) ==
    [source_file |-> rel_path,
     severity_stage |-> verdict.severity,
     destination_folder |-> organize_severity_labels[verdict.severity],
     root_cause_summary |-> verdict.root_cause,
     confidence |-> verdict.confidence,
     evidence_keywords |-> FirstThree(verdict.evidence)]

organize_file_counting_before_copy(state, rel_path, outcome, copy_raises) ==
    IF outcome.exc # "" THEN state
    ELSE IF copy_raises
    THEN [state EXCEPT !.file_counts[outcome.severity] = @ + 1]
    ELSE [dest |-> state.dest
                     \cup {<<organize_severity_labels[outcome.severity], rel_path>>},
          file_counts |-> [state.file_counts EXCEPT ![outcome.severity] = @ + 1],
          results |-> Append(state.results, organize_record(rel_path, outcome))]

\* One iteration of the loop of classify_and_organize on the state of the
\* driver, given the outcome of the loading and classification and whether
\* shutil.copy2 raises: the except branch leaves the state as it is.
organize_file(state, rel_path, outcome, copy_raises) ==
    IF outcome.exc # "" \/ copy_raises THEN state
    ELSE [dest |-> state.dest
                     \cup {<<organize_severity_labels[outcome.severity], rel_path>>},
          file_counts |-> [state.file_counts EXCEPT ![outcome.severity] = @ + 1],
          results |-> Append(state.results, organize_record(rel_path, outcome))]

\* severity_counts of analyze_report of visualize_classification.py: the
\* number of items of the report per severity_stage (a Counter gives 0 for a
\* severity no item has).
analyze_report_severity_counts(items) ==
    [sev \in 0..3 |->
        Cardinality({i \in 1..Len(items) : items[i].severity_stage = sev})]

(***************************************************************************)
(* merge_case_logs.py: process_batch.  A filename is the sequence of its   *)
(* fragments, each digit a fragment of its own.                            *)
(***************************************************************************)
OPTION == "option_1"

\* r'case_(\d+)'
CaseNumberExpr == <<Lit("case_"), DigitPlus>>

\* int(case_num_str)
RECURSIVE int_of(_)
int_of(digits) ==
    IF digits = <<>> THEN 0
    ELSE int_of(SubSeq(digits, 1, Len(digits) - 1)) * 10
         + DigitValue[digits[Len(digits)]]

\* match = re.search(r'case_(\d+)', filename, re.IGNORECASE) on the filename
\* of the case item, and match.group(1).
case_match(case_item) ==
    re_search(CaseNumberExpr, dict_get(case_item, "filename", <<>>), TRUE)
case_num_str(case_item) ==
    SubSeq(dict_get(case_item, "filename", <<>>),
           case_match(case_item).start + 1, case_match(case_item).end - 1)

\* output_filename = f"{OPTION}_case_{case_id}_logs.json"
output_filename(case_item) ==
    OPTION \o "_case_" \o ToString(int_of(case_num_str(case_item))) \o "_logs.json"

\* What glob finds for the case: no log directory, or one, in which each of
\* the three log files is missing, cannot be read, or has a content.
NoLogDir == [found |-> FALSE]
LogDir(du, cu, ue) ==
    [found |-> TRUE,
     files |-> <<[name |-> "du.stdout.log", file |-> du],
                 [name |-> "cu.stdout.log", file |-> cu],
                 [name |-> "ue.stdout.log", file |-> ue]>>]
MissingLog == [kind |-> "missing", text |-> <<>>]
UnreadableLog == [kind |-> "unreadable", text |-> <<>>]
LogFile(text) == [kind |-> "file", text |-> text]

\* content of one log file: what lf.read() returns, or the placeholders.
content_of(file) ==
    CASE file.kind = "missing" -> <<"Log file not found.">>
      [] file.kind = "unreadable" ->
            <<"Error", " reading log: ", "[Errno 13] Permission denied">>
      [] OTHER -> file.text

\* case_output of one case item.
case_output_of(case_item, log_dir) ==
    ("case_id" :> int_of(case_num_str(case_item)))
 @@ ("original_json_data" :> case_item)
 @@ ("logs" :>
        IF log_dir.found
        THEN [n \in 1..Len(log_dir.files) |->
                 StrItem(log_dir.files[n].name, content_of(log_dir.files[n].file))]
        ELSE <<>>)

\* One iteration of the loop of process_batch on the index-th case item: the
\* item is skipped when its filename has no case number, else its
\* case_output is written to the output file of its case_id, in place of
\* what a file of that name held.
process_case_item(state, case_item, index, log_dir) ==
    IF ~case_match(case_item).found THEN state
    ELSE [case_output |-> case_output_of(case_item, log_dir),
          output_dir |->
              {f \in state.output_dir : f.name # output_filename(case_item)}
              \cup {[name |-> output_filename(case_item), holds |-> index]}]

(***************************************************************************)
(* Inputs: log lines, stream contents, metadata, bundles                   *)
(***************************************************************************)
\* The largest number of connect() failure lines in a UE stream.
MaxFailures == 11

LineNoise == <<"[PHY] frame", " ", "128">>
LineAssert == <<"Assertion", " ", "(", "num_tx >= XP", ")", " ", "failed", "!">>
LineExit == <<"Exiting execution">>
LinePdu == <<"Received", " ">> \o PduSessionAccept
LineRrc == RrcConnectedReached
LineCbra == CbraSucceeded
LineRa == <<"RA procedure", " succeeded">>
LineIPv4 == <<"IPv4", " ", "10.0.0.5">>
LineIPv4Tail == <<"IPv4">>
LineAddr == <<"10.0.0.5">>
LineReject == <<"Registration", " ", "reject">>
LineError == <<"[NR_MAC]", " ", "error">>
LineConnect ==
    <<"connect", "()", " to", " ", "127.0.0.1", " ", "failed", ", errno">>
LineConnectBare == <<"connect", "()", " ", "failed">>

\* A stream content as its list of lines.
Samples ==
    { <<>>, <<LineNoise>>, <<LineAssert>>, <<LineExit>>, <<LinePdu>>,
      <<LineRrc>>, <<LineCbra>>, <<LineRa>>, <<LineIPv4>>, <<LineReject>>,
      <<LineError>>, <<LinePdu, LineRrc>>, <<LineRrc, LineIPv4Tail>>,
      <<LineAddr>> }

Rep(line, n) == [i \in 1..n |-> line]

UeSamples ==
    Samples \cup {Rep(LineConnect, n) : n \in 1..MaxFailures}
            \cup {Rep(LineConnectBare, MaxFailures)}

MetaFull ==
    ("filename" :> "DU_case_001.json") @@ ("affected_module" :> "PHY")
 @@ ("error_type" :> "invalid_value")
 @@ ("impact_description" :> "cell cannot start")
MetaNoType == ("filename" :> "cu_case_002.json")
MetaEmptyType == ("error_type" :> "")
Metas == {MetaFull, MetaNoType, MetaEmptyType}

WithMeta(d) == {d} \cup {d @@ ("original_json_data" :> m) : m \in Metas}

DuStr(ls) == StrItem("du.stdout.log", str_join(ls))
UeStr(ls) == StrItem("ue.stdout.log", str_join(ls))

\* The "logs" dicts: no stream, one stream, or both in either order, every
\* value a str; and the ones with a list of str as the DU value.
StrLogs ==
    {<<>>} \cup {<<DuStr(d)>> : d \in Samples} \cup {<<UeStr(u)>> : u \in UeSamples}
    \cup {<<DuStr(d), UeStr(u)>> : d \in Samples, u \in UeSamples}
    \cup {<<UeStr(u), DuStr(d)>> : d \in Samples, u \in UeSamples}
ListLogs ==
    {<<ListItem("du.stdout.log", d)>> : d \in Samples}
    \cup {<<ListItem("du.stdout.log", d), UeStr(<<LineNoise>>)>> : d \in Samples}

Bundles ==
    UNION {WithMeta("logs" :> l) : l \in StrLogs \cup ListLogs}
    \cup WithMeta(EmptyDict)

\* The bundles of the runs with repeated calls, and the bundles classified in
\* between.
RepeatBundles ==
    UNION {WithMeta("logs" :> l) :
              l \in {<<DuStr(d)>> : d \in Samples}
                    \cup {<<ListItem("du.stdout.log", d)>> : d \in Samples}
                    \cup {<<DuStr(d), UeStr(Rep(LineConnect, MaxFailures))>> :
                             d \in Samples}}
OtherBundles ==
    { "logs" :> <<DuStr(<<LineAssert>>)>>,
      ("logs" :> <<DuStr(<<LinePdu, LineRrc>>)>>)
          @@ ("original_json_data" :> MetaFull),
      "logs" :> <<ListItem("du.stdout.log", <<LineError>>)>> }

\* Assertion lines: another expression, lower case, no parentheses, and an
\* expression that runs over two lines.
LineAssertGtp == <<"Assertion", " ", "(", "gtpInst > 0", ")", " ", "failed", "!">>
LineAssertLower == <<"assertion", " ", "(", "num_tx >= XP", ")", " ", "failed">>
LineAssertPlain == <<"Assertion", " ", "failed">>
LineAssertOpen == <<"Assertion", " ", "(", "num_tx >= XP">>
LineAssertClose == <<"gtpInst > 0", ")", " ", "failed">>

\* The lines of lines whose index is in S, in order.
RECURSIVE LinesAt(_, _, _)
LinesAt(lines, S, n) ==
    IF n > Len(lines) THEN <<>>
    ELSE (IF n \in S THEN <<lines[n]>> ELSE <<>>) \o LinesAt(lines, S, n + 1)

\* The streams that combine the tiers, and the ones with assertions.
TierLines == <<LineReject, LineError, LineRa, LineRrc, LineIPv4, LineExit>>
TierStreams == {LinesAt(TierLines, S, 1) : S \in SUBSET (1..Len(TierLines))}
AssertStreams ==
    { <<LineAssert>>, <<LineAssert, LineAssertGtp>>, <<LineAssertGtp, LineAssert>>,
      <<LineAssertLower>>, <<LineAssertPlain>>, <<LineAssertPlain, LineAssertGtp>>,
      <<LineAssertOpen, LineAssertClose>>,
      <<LineExit, LineAssertOpen, LineAssertClose>>,
      <<LineAssertLower, LineExit, LineAssert>>,
      <<LineRrc, LineIPv4, LineAssertGtp>> }
TierUeStreams ==
    { <<>>, <<LineAssertGtp>>, Rep(LineConnect, MaxFailures - 1),
      Rep(LineConnect, MaxFailures), Rep(LineConnectBare, MaxFailures) }
TierBundles ==
    UNION {WithMeta("logs" :> <<DuStr(d), UeStr(u)>>) :
              d \in TierStreams \cup AssertStreams, u \in TierUeStreams}

\* The largest number of files in a source directory.
MaxFiles == 3

LineAssertExit == <<"Assert_Exit_">>

\* The bundles of the files: a crash with four evidence entries, a
\* corroborated success and a list-valued stream.
BatchBundles ==
    { ("logs" :> <<DuStr(<<LineAssert, LineExit, LineAssertExit>>)>>)
          @@ ("original_json_data" :> MetaFull),
      ("logs" :> <<DuStr(<<LineNoise>>), UeStr(<<LinePdu, LineRrc, LineIPv4>>)>>)
          @@ ("original_json_data" :> MetaNoType),
      "logs" :> <<ListItem("du.stdout.log", <<LineError>>)>> }

BatchFiles == {Unreadable, NotJson, JsonArray} \cup {JsonObject(b) : b \in BatchBundles}

Directories == UNION {[1..n -> BatchFiles] : n \in 1..MaxFiles}

\* The path of the n-th file of the directory.
PathOf(n) == "case_" \o ToString(n) \o ".json"

\* The largest length of a filename a component label is asked for.
MaxNameLen == 4

NameAlphabet == {"D", "d", "U", "u", "C", "c", "E", "e", "_"}
Filenames == UNION {[1..n -> NameAlphabet] : n \in 0..MaxNameLen}

\* The bundles the workers classify.
WorkerBundles ==
    { ("logs" :> <<DuStr(<<LineAssert>>)>>) @@ ("original_json_data" :> MetaFull),
      "logs" :> <<DuStr(<<LinePdu, LineRrc>>)>>,
      ("logs" :> <<DuStr(<<LineRa>>), UeStr(<<LineReject>>)>>),
      ("logs" :> <<UeStr(Rep(LineConnect, MaxFailures))>>)
          @@ ("original_json_data" :> MetaFull),
      "logs" :> <<ListItem("du.stdout.log", <<LineError>>)>>,
      EmptyDict }

Workers == {"w1", "w2"}

\* Connect-failure lines in upper case and with two failures on one line.
LineConnectUpper ==
    <<"CONNECT", "()", " TO", " ", "127.0.0.1", " ", "FAILED", ", ERRNO">>
LineConnectTwice == LineConnect \o <<" ">> \o LineConnectBare

CuStr(ls) == StrItem("cu.stdout.log", str_join(ls))

\* The bundles whose streams hold connect-failure lines: in the UE stream, in
\* the DU and the CU stream, in upper case, two failures on a line; with the
\* UE stream present or absent.
StreamUeStreams ==
    { <<>>, <<LineRa>>, <<LinePdu, LineRrc>>,
      Rep(LineConnect, MaxFailures - 1), Rep(LineConnect, MaxFailures),
      Rep(LineConnectBare, MaxFailures),
      Rep(LineConnectTwice, (MaxFailures + 1) \div 2),
      Rep(LineConnectTwice, MaxFailures),
      Rep(LineConnectUpper, MaxFailures) }
StreamDuStreams ==
    { <<LineNoise>>, <<LineConnect>>, Rep(LineConnect, MaxFailures),
      <<LinePdu, LineRrc>>, <<LineRrc, LineIPv4>>, <<LineAssert>> }
StreamLogs ==
    LET du == {<<>>} \cup {<<DuStr(d)>> : d \in StreamDuStreams}
        cu == {<<>>, <<CuStr(Rep(LineConnect, MaxFailures))>>}
        ue == {<<>>} \cup {<<UeStr(u)>> : u \in StreamUeStreams}
    IN {d \o c \o u : d \in du, c \in cu, u \in ue}
StreamBundles == UNION {WithMeta("logs" :> l) : l \in StreamLogs}

\* The lines of the texts classify_log is given, one per category and the
\* ones two categories match.
LineAssertArfcn ==
    <<"Assertion", " ", "(", "nrarfcn >= N_OFFs", ")", " ", "failed">>
LineAssertEnc ==
    <<"Assertion", " ", "(", "enc_rval.encoded > 0", ")", " ", "failed">>
LineDns == <<"getaddrinfo error">>
LineSyntax == <<"syntax error">>
LinePlmn == <<"PLMN", " ", "mismatch">>
LineRadio == <<"No radio device">>
LineRfsim == <<"rfsimulator", " ", "connect", "()", " ", "failed">>
CategoryLines ==
    <<LineNoise, LineRadio, LinePlmn, LineAssert, LineRfsim, LineSyntax, LineDns,
      LineAssertEnc, LineAssertArfcn, LineAssertGtp>>
CategoryTexts ==
    {<<>>, <<NL>>}
    \cup {str_join(LinesAt(CategoryLines, S, 1)) \o <<NL>> :
             S \in (SUBSET (1..Len(CategoryLines))) \ {{}}}

\* The largest number of case items in a cases file.
MaxCases == 2

\* The case items: filenames with the same case number, with the number
\* written with and without leading zeros, with another number, without a
\* number, and no filename.
CaseItems ==
    { "filename" :> <<"DU_", "case_", "0", "0", "1", ".json">>,
      ("filename" :> <<"DU_", "case_", "0", "0", "1", ".json">>)
          @@ ("error_type" :> "invalid_value"),
      "filename" :> <<"CU_", "case_", "0", "0", "1", ".json">>,
      "filename" :> <<"du_", "Case_", "1", ".json">>,
      "filename" :> <<"DU_", "case_", "0", "1", "0", ".json">>,
      "filename" :> <<"du_gnb", ".conf">>,
      EmptyDict }
CasesFile(items) == [kind |-> "array", value |-> items]
CasesFiles ==
    {Unreadable, NotJson, JsonObject(EmptyDict)}
    \cup {CasesFile(items) : items \in UNION {[1..n -> CaseItems] : n \in 0..MaxCases}}
LogDirs ==
    { NoLogDir,
      LogDir(MissingLog, MissingLog, MissingLog),
      LogDir(UnreadableLog, MissingLog, MissingLog),
      LogDir(UnreadableLog, UnreadableLog, UnreadableLog),
      LogDir(LogFile(str_join(<<LineNoise>>)), MissingLog, UnreadableLog),
      LogDir(LogFile(str_join(<<LineNoise>>)), LogFile(<<>>),
             LogFile(str_join(<<LinePdu, LineRrc>>))) }

(***************************************************************************)
(* State                                                                   *)
(***************************************************************************)
\* The largest number of classify_severity calls made on one instance.
MaxCalls == 3

VARIABLES
    analyzer,   \* the LogAnalyzer instance
    calls,      \* the classify_severity calls made on it so far
    log_data,   \* the bundle at hand
    result,     \* what classify_severity(log_data) returned or raised, if called
    again,      \* what a later call on the same bundle returned or raised
    driver,     \* the batch driver that runs, if one does
    files,      \* the files of its source directory, in the order it visits them
    position,   \* the files it has visited
    results,    \* its list of records
    file_counts, \* file_counts of classify_and_organize
    dest,       \* the copies classify_and_organize made: (folder, file) pairs
    uncopied,   \* the files whose copy raised
    report,     \* the records written to the report file, once written
    filename,   \* the filename a component label is asked for, as characters
    component,  \* the label extract_component_from_filename returned for it
    in_flight,  \* per worker, the locals of its classify_severity call in progress
    verdicts,   \* the (bundle, verdict) pairs the workers produced
    log_text,   \* the text classify_log is called with
    category,   \* the category classify_log returned for it
    cases_file, \* the cases JSON file of the batch process_batch merges
    merge_position, \* the case items process_batch has gone through
    case_output, \* the case_output of the last case item written
    output_dir  \* the output directory: per file name, the case item it holds

call_vars == <<analyzer, calls, log_data, result, again>>
batch_vars ==
    <<driver, files, position, results, file_counts, dest, uncopied, report>>
name_vars == <<filename, component>>
worker_vars == <<in_flight, verdicts>>
category_vars == <<log_text, category>>
merge_vars == <<cases_file, merge_position, case_output, output_dir>>
tool_vars == <<category_vars, merge_vars>>
vars == <<call_vars, batch_vars, name_vars, worker_vars, tool_vars>>

None == [exc |-> "none"]

\* The report file before json.dump has written it.
NotSaved == [saved |-> FALSE, records |-> <<>>]

\* No batch driver runs, no component label is asked for, no worker exists.
NoBatch ==
    /\ driver = ""
    /\ files = <<>>
    /\ position = 0
    /\ results = <<>>
    /\ file_counts = <<>>
    /\ dest = {}
    /\ uncopied = {}
    /\ report = NotSaved
NoName == filename = <<>> /\ component = ""
NoWorkers == in_flight = <<>> /\ verdicts = {}
NoCategory == log_text = <<>> /\ category = ""
NoMerge ==
    /\ cases_file = Unreadable
    /\ merge_position = 0
    /\ case_output = EmptyDict
    /\ output_dir = {}
NoTools == NoCategory /\ NoMerge

InitOver(bundles) ==
    /\ analyzer = LogAnalyzer
    /\ calls = 0
    /\ log_data \in bundles
    /\ result = None
    /\ again = None
    /\ NoBatch /\ NoName /\ NoWorkers /\ NoTools

Init == InitOver(Bundles)

\* severity, root_cause, evidence, confidence = self.classify_severity(log_data)
Classify ==
    /\ result = None
    /\ calls < MaxCalls
    /\ result' = classify_severity(analyzer, log_data)
    /\ analyzer' = self_after(analyzer, log_data)
    /\ calls' = calls + 1
    /\ UNCHANGED <<log_data, again, batch_vars, name_vars, worker_vars, tool_vars>>

\* The same bundle classified once more.
ClassifyAgain ==
    /\ result # None
    /\ again = None
    /\ calls < MaxCalls
    /\ again' = classify_severity(analyzer, log_data)
    /\ analyzer' = self_after(analyzer, log_data)
    /\ calls' = calls + 1
    /\ UNCHANGED <<log_data, result, batch_vars, name_vars, worker_vars, tool_vars>>

\* Another bundle classified on the same instance in between.
ClassifyOther ==
    /\ result # None
    /\ again = None
    /\ calls < MaxCalls
    /\ \E other \in OtherBundles :
          analyzer' = self_after(analyzer, other)
    /\ calls' = calls + 1
    /\ UNCHANGED <<log_data, result, again, batch_vars, name_vars, worker_vars, tool_vars>>

\* analyzer = LogAnalyzer(): a fresh instance.
NewInstance ==
    /\ result # None
    /\ again = None
    /\ calls > 0
    /\ analyzer' = LogAnalyzer
    /\ calls' = 0
    /\ UNCHANGED <<log_data, result, again, batch_vars, name_vars, worker_vars, tool_vars>>

\* One call per bundle.
Next == Classify

Spec == Init /\ [][Next]_vars

\* Repeated calls, on the same or on a fresh instance.
InitRepeat == InitOver(RepeatBundles)

NextRepeat == Classify \/ ClassifyAgain \/ ClassifyOther \/ NewInstance

SpecRepeat == InitRepeat /\ [][NextRepeat]_vars

\* One call per bundle, on the bundles that combine the tiers.
InitTiers == InitOver(TierBundles)

SpecTiers == InitTiers /\ [][Next]_vars

\* One call per bundle, on the bundles with connect-failure lines.
InitStreams == InitOver(StreamBundles)

SpecStreams == InitStreams /\ [][Next]_vars

(***************************************************************************)
(* The batch drivers                                                       *)
(***************************************************************************)
InitBatch ==
    /\ analyzer = LogAnalyzer
    /\ calls = 0
    /\ log_data = EmptyDict
    /\ result = None
    /\ again = None
    /\ driver \in {"analyze_directory", "classify_and_organize"}
    /\ files \in Directories
    /\ position = 0
    /\ results = <<>>
    /\ file_counts = [sev \in 0..3 |-> 0]
    /\ dest = {}
    /\ uncopied = {}
    /\ report = NotSaved
    /\ NoName /\ NoWorkers /\ NoTools

\* One iteration of the loop of analyze_directory: result =
\* self.analyze_file(filepath); results.append(result)
AnalyzeNextFile ==
    /\ driver = "analyze_directory"
    /\ position < Len(files)
    /\ ~report.saved
    /\ LET file == files[position + 1]
       IN /\ results' = Append(results,
                               analyze_file(analyzer, PathOf(position + 1), file))
          /\ analyzer' = self_after_file(analyzer, file)
    /\ position' = position + 1
    /\ UNCHANGED <<calls, log_data, result, again, driver, files, file_counts,
                   dest, uncopied, report, name_vars, worker_vars, tool_vars>>

\* One iteration of the loop of classify_and_organize: the file is loaded,
\* classified, copied, counted and recorded, or skipped when any of it raises
\* (the copy may raise for any file).
OrganizeNextFile ==
    /\ driver = "classify_and_organize"
    /\ position < Len(files)
    /\ ~report.saved
    /\ \E copy_raises \in BOOLEAN :
          LET file == files[position + 1]
              outcome == load_and_classify(analyzer, file)
              after == organize_file([dest |-> dest, file_counts |-> file_counts,
                                      results |-> results],
                                     PathOf(position + 1), outcome, copy_raises)
          IN /\ dest' = after.dest
             /\ file_counts' = after.file_counts
             /\ results' = after.results
             /\ uncopied' = IF outcome.exc = "" /\ copy_raises
                            THEN uncopied \cup {PathOf(position + 1)}
                            ELSE uncopied
             /\ analyzer' = self_after_file(analyzer, file)
    /\ position' = position + 1
    /\ UNCHANGED <<calls, log_data, result, again, driver, files, report,
                   name_vars, worker_vars, tool_vars>>

\* json.dump(results, f, ...) after the loop: the report file.
SaveReport ==
    /\ driver # ""
    /\ position = Len(files)
    /\ ~report.saved
    /\ report' = [saved |-> TRUE, records |-> results]
    /\ UNCHANGED <<call_vars, driver, files, position, results, file_counts,
                   dest, uncopied, name_vars, worker_vars, tool_vars>>

NextBatch == AnalyzeNextFile \/ OrganizeNextFile \/ SaveReport

SpecBatch == InitBatch /\ [][NextBatch]_vars

(***************************************************************************)
(* The component label of a filename                                       *)
(***************************************************************************)
InitName ==
    /\ analyzer = LogAnalyzer
    /\ calls = 0
    /\ log_data = EmptyDict
    /\ result = None
    /\ again = None
    /\ NoBatch /\ NoWorkers /\ NoTools
    /\ filename \in Filenames
    /\ component = ""

\* component = self.extract_component_from_filename(filename)
ExtractComponent ==
    /\ component = ""
    /\ component' = extract_component_from_filename(filename)
    /\ UNCHANGED <<call_vars, batch_vars, filename, worker_vars, tool_vars>>

NextName == ExtractComponent

SpecName == InitName /\ [][NextName]_vars

(***************************************************************************)
(* Workers that share one instance: a call of classify_severity is taken   *)
(* in two steps, the combination of the streams and the cascade, and the   *)
(* calls of the workers interleave                                         *)
(***************************************************************************)
Idle == [phase |-> "idle"]

InitWorkers ==
    /\ analyzer = LogAnalyzer
    /\ calls = 0
    /\ log_data = EmptyDict
    /\ result = None
    /\ again = None
    /\ NoBatch /\ NoName /\ NoTools
    /\ in_flight = [w \in Workers |-> Idle]
    /\ verdicts = {}

\* Worker w enters classify_severity(bundle): all_logs and the metadata
\* fields are locals of the call.
BeginCall(w) ==
    /\ in_flight[w] = Idle
    /\ calls < MaxCalls
    /\ \E bundle \in WorkerBundles :
          in_flight' = [in_flight EXCEPT ![w] =
                           [phase |-> "combined", bundle |-> bundle,
                            combined |-> combine_logs(bundle)]]
    /\ calls' = calls + 1
    /\ UNCHANGED <<analyzer, log_data, result, again, batch_vars, name_vars,
                   verdicts, tool_vars>>

\* Worker w runs the cascade on its locals, reading the catalog of the
\* shared instance, and returns.
EndCall(w) ==
    /\ in_flight[w] # Idle
    /\ LET call == in_flight[w]
           verdict == IF call.combined.exc # "" THEN Raised(call.combined.exc)
                      ELSE crash_step(Locals(analyzer, call.bundle,
                                             call.combined.text))
       IN /\ verdicts' = verdicts \cup {[bundle |-> call.bundle, verdict |-> verdict]}
          /\ analyzer' = self_after(analyzer, call.bundle)
    /\ in_flight' = [in_flight EXCEPT ![w] = Idle]
    /\ UNCHANGED <<calls, log_data, result, again, batch_vars, name_vars,
                   tool_vars>>

NextWorkers == \E w \in Workers : BeginCall(w) \/ EndCall(w)

SpecWorkers == InitWorkers /\ [][NextWorkers]_vars

(***************************************************************************)
(* categorize_errors.py: one call of classify_log per text                 *)
(***************************************************************************)
InitCategory ==
    /\ analyzer = LogAnalyzer
    /\ calls = 0
    /\ log_data = EmptyDict
    /\ result = None
    /\ again = None
    /\ NoBatch /\ NoName /\ NoWorkers /\ NoMerge
    /\ log_text \in CategoryTexts
    /\ category = ""

\* category = classify_log(logs_combined)
ClassifyLog ==
    /\ category = ""
    /\ category' = classify_log(log_text)
    /\ UNCHANGED <<call_vars, batch_vars, name_vars, worker_vars, log_text,
                   merge_vars>>

NextCategory == ClassifyLog

SpecCategory == InitCategory /\ [][NextCategory]_vars

(***************************************************************************)
(* merge_case_logs.py: process_batch on one batch                          *)
(***************************************************************************)
InitMerge ==
    /\ analyzer = LogAnalyzer
    /\ calls = 0
    /\ log_data = EmptyDict
    /\ result = None
    /\ again = None
    /\ NoBatch /\ NoName /\ NoWorkers /\ NoCategory
    /\ cases_file \in CasesFiles
    /\ merge_position = 0
    /\ case_output = EmptyDict
    /\ output_dir = {}

\* One iteration of "for case_item in cases_data" of process_batch, which
\* returns before the loop when the cases file cannot be loaded or is not a
\* list.
MergeNextCase ==
    /\ json_load(cases_file).exc = ""
    /\ cases_file.kind = "array"
    /\ merge_position < Len(cases_file.value)
    /\ \E log_dir \in LogDirs :
          LET after == process_case_item([case_output |-> case_output,
                                          output_dir |-> output_dir],
                                         cases_file.value[merge_position + 1],
                                         merge_position + 1, log_dir)
          IN /\ case_output' = after.case_output
             /\ output_dir' = after.output_dir
    /\ merge_position' = merge_position + 1
    /\ UNCHANGED <<call_vars, batch_vars, name_vars, worker_vars, category_vars,
                   cases_file>>

NextMerge == MergeNextCase

SpecMerge == InitMerge /\ [][NextMerge]_vars

(***************************************************************************)
(* The properties                                                          *)
(***************************************************************************)
\* severity_labels of analyze_logs.main: the name of each severity.
severity_labels ==
    (0 :> "No Error") @@ (1 :> "Component Crash") @@ (2 :> "Component Abnormal")
 @@ (3 :> "UE Connection Failed") @@ (-1 :> "Processing Error")

\* What the bundle at hand holds.
Returned == result # None /\ result.exc = ""
Corpus == combine_logs(log_data).text
Metadata == dict_get(log_data, "original_json_data", EmptyDict)
ErrorType == dict_get(Metadata, "error_type", "")
EmptyMetadata == \A k \in DOMAIN Metadata : Metadata[k] = ""
CrashTier == check_patterns(Corpus, crash_patterns).any
SuccessTier == check_patterns(Corpus, success_patterns).any
ConnectionFailureTier == check_patterns(Corpus, ue_failure_patterns).any
AbnormalTier == check_patterns(Corpus, abnormal_patterns).any
SubSignals == success_count_of(Corpus)
UeLog == ue_log_of(log_data)
UeFailureCount == re_findall_count(ConnectFailedExpr, UeLog, 1)
UeSubstrings ==
    /\ str_in(<<"connect", "()", " to">>, UeLog)
    /\ str_in(<<"failed", ", errno">>, UeLog)
RepeatedTrigger == UeSubstrings /\ ~SuccessTier /\ UeFailureCount > 10
\* Steps 1 to 4 of the cascade do not fire.
NoTierStep ==
    /\ ~CrashTier
    /\ ~(SuccessTier /\ SubSignals >= 2)
    /\ ~ConnectionFailureTier
    /\ ~AbnormalTier
Has(severity, confidence) ==
    result.severity = severity /\ result.confidence = confidence
HasListStream ==
    /\ "logs" \in DOMAIN log_data
    /\ \E n \in 1..Len(log_data["logs"]) : log_data["logs"][n].type = "list"
ExpectedShape ==
    "logs" \in DOMAIN log_data =>
        \A n \in 1..Len(log_data["logs"]) :
            log_data["logs"][n].type \in {"str", "list"}

\* C1: a bundle whose corpus matches a Crash-tier pattern is classified
\* severity 1 with confidence 0.95, whatever else matches and whatever the
\* UE stream and the metadata hold.
C1_CrashPrecedence == (Returned /\ CrashTier) => Has(1, 95)

C1_CrashWithSuccessReached ==
    /\ Returned /\ CrashTier
    /\ SuccessTier /\ SubSignals >= 2
    /\ ErrorType # ""
    /\ Has(1, 95)

\* C2: without a Crash-tier match, two or more of the four success
\* sub-signals give severity 0 with confidence 0.90, also when
\* ConnectionFailure-tier or Abnormal-tier patterns match.
C2_CorroboratedSuccess ==
    (Returned /\ ~CrashTier /\ SubSignals >= 2) => Has(0, 90)

C2_SuccessOverFailureReached ==
    /\ Returned /\ ~CrashTier /\ SubSignals >= 2
    /\ ConnectionFailureTier
    /\ ErrorType # ""
    /\ Has(0, 90)

\* C3 as stated: one Success-tier signal (a Success-tier match below the
\* two-signal threshold) and no Crash, ConnectionFailure or Abnormal match
\* give severity 0 with confidence 0.70 for every metadata.
C3_SingleSuccessAnyMetadata ==
    (Returned /\ SuccessTier /\ SubSignals < 2
        /\ ~CrashTier /\ ~ConnectionFailureTier /\ ~AbnormalTier)
    => Has(0, 70)

\* C3 amended: the same bundles give severity 0 with confidence 0.70 when the
\* metadata error_type is empty or absent.
C3_SingleSuccessNoErrorType ==
    (Returned /\ SuccessTier /\ SubSignals < 2
        /\ ~CrashTier /\ ~ConnectionFailureTier /\ ~AbnormalTier
        /\ ErrorType = "")
    => Has(0, 70)

C3_SingleSuccessReached ==
    /\ Returned /\ SuccessTier /\ SubSignals = 1
    /\ ~CrashTier /\ ~ConnectionFailureTier /\ ~AbnormalTier
    /\ ErrorType = ""
    /\ UeFailureCount > 10
    /\ Has(0, 70)

\* C4 as stated: when steps 1 to 4 do not fire and no success signal is
\* present, 10 occurrences of the connect-failure pattern in the UE stream do
\* not trigger the repeated-connection rule and 11 occurrences trigger it
\* (severity 3, confidence 0.80, the count 11 in the evidence).
C4_ElevenOccurrencesTrigger ==
    (Returned /\ NoTierStep /\ ~SuccessTier)
    => /\ UeFailureCount = 10 => ~Has(3, 80)
       /\ UeFailureCount = 11 =>
             /\ Has(3, 80)
             /\ result.evidence = <<"11 connection attempts failed">>

\* C4 amended: the same, for a UE stream that holds the substrings
\* "connect() to" and "failed, errno".
C4_RepeatedConnectionBoundary ==
    (Returned /\ NoTierStep /\ ~SuccessTier)
    => /\ UeFailureCount = 10 => ~Has(3, 80)
       /\ (UeFailureCount = 11 /\ UeSubstrings) =>
             /\ Has(3, 80)
             /\ result.evidence = <<"11 connection attempts failed">>

C4_ElevenFailuresReached ==
    /\ Returned /\ NoTierStep /\ ~SuccessTier
    /\ UeFailureCount = 11 /\ UeSubstrings
    /\ ErrorType # ""
    /\ Has(3, 80)

\* C5: a bundle that matches no pattern, has no qualifying UE failure volume
\* and has empty metadata gets the severity Unknown, a label other than
\* NoError, with confidence 0.30 and the insufficient-information marker.
C5_UnknownDistinctFromNoError ==
    (Returned /\ NoTierStep /\ ~SuccessTier /\ ~RepeatedTrigger /\ EmptyMetadata)
    => /\ severity_labels[result.severity] # severity_labels[0]
       /\ result.confidence = 30
       /\ result.evidence = <<"Insufficient log information">>

\* C6: when steps 1 to 5 do not fire and the metadata error_type is not
\* empty, the verdict is severity 2 with confidence 0.50, also for the empty
\* corpus and for a corpus with a single Success-tier match.
C6_MetadataFallback ==
    (Returned /\ NoTierStep /\ ~RepeatedTrigger /\ ErrorType # "") => Has(2, 50)

C6_FallbackOverSuccessReached ==
    /\ Returned /\ NoTierStep /\ ~RepeatedTrigger /\ ErrorType # ""
    /\ SuccessTier
    /\ Has(2, 50)

C8_NeverRaises == (result # None /\ ExpectedShape) => result.exc = ""

\* The bundle with every list-valued stream replaced by its "\n"-joined str.
JoinedItem(it) ==
    IF it.type = "list" THEN StrItem(it.key, str_join(it.items)) ELSE it
Joined(d) ==
    IF "logs" \in DOMAIN d
    THEN [d EXCEPT !["logs"] = [n \in 1..Len(d["logs"]) |-> JoinedItem(d["logs"][n])]]
    ELSE d

\* C9: a bundle with a list-valued stream gets the verdict of the bundle
\* with that stream joined by newlines, from the severity classifier and
\* from the category classifier's driver.
C9_ListAsJoinedString ==
    (result # None /\ HasListStream)
    => /\ result = classify_severity(analyzer, Joined(log_data))
       /\ category_of(log_data) = category_of(Joined(log_data))

\* The bundles with the streams of d in another order.
Reordered(d) ==
    IF "logs" \in DOMAIN d
    THEN LET items == d["logs"]
             n == Len(items)
         IN {[d EXCEPT !["logs"] = [i \in 1..n |-> items[p[i]]]] :
                p \in {q \in [1..n -> 1..n] : \A i, j \in 1..n : i # j => q[i] # q[j]}}
    ELSE {d}

\* C10: the severity and the confidence do not depend on the order in which
\* the streams of the bundle are concatenated.
C10_StreamOrderIndependent ==
    Returned =>
        \A d \in Reordered(log_data) :
            LET r == classify_severity(analyzer, d)
            IN r.severity = result.severity /\ r.confidence = result.confidence

\* What the finished batch driver left behind.
Malformed(file) ==
    file.kind # "object" \/ classify_severity(LogAnalyzer, file.value).exc # ""
RecordPath(record) ==
    IF "case_id" \in DOMAIN record THEN record.case_id ELSE record.source_file
RecordsOf(n) ==
    {i \in 1..Len(report.records) : RecordPath(report.records[i]) = PathOf(n)}

\* C11: a batch driver (analyze_directory, classify_and_organize) visits
\* every file, and its report holds exactly one record per file; the record
\* of a malformed file (unreadable, not JSON, or of a shape that makes the
\* classification raise) has severity -1 and confidence 0.0.
C11_MalformedFileReported ==
    report.saved =>
        /\ position = Len(files)
        /\ \A n \in 1..Len(files) :
              /\ Cardinality(RecordsOf(n)) = 1
              /\ Malformed(files[n]) =>
                    \A i \in RecordsOf(n) :
                        /\ report.records[i].severity_stage = -1
                        /\ report.records[i].confidence = 0

\* C12: every record of a written report carries at most 3 evidence entries,
\* the first 3 of the evidence the classifier returned for its file, in the
\* classifier's order; for classify_and_organize and for analyze_logs.
C12_AtMostThreeEvidence ==
    report.saved =>
        \A n \in 1..Len(files) : \A i \in RecordsOf(n) :
            /\ Len(report.records[i].evidence_keywords) <= 3
            /\ ~Malformed(files[n]) =>
                  report.records[i].evidence_keywords =
                      FirstThree(classify_severity(LogAnalyzer, files[n].value).evidence)

\* The occurrences of 'Assertion (E) failed' with E not empty and free of
\* ')' in the corpus, by where they start; E ends before the first ')' that
\* follows.
Closings(i) == {j \in (i + 3)..Len(Corpus) : Corpus[j] = ")"}
AssertionStarts ==
    {i \in 1..Len(Corpus) :
        /\ Corpus[i] = "Assertion" /\ i + 2 <= Len(Corpus)
        /\ Corpus[i + 1] = " " /\ Corpus[i + 2] = "("
        /\ Closings(i) # {}
        /\ LET j == SetMin(Closings(i))
           IN /\ j > i + 3 /\ j + 2 <= Len(Corpus)
              /\ Corpus[j + 1] = " " /\ Corpus[j + 2] = "failed"}
ExprOf(i) == Str(SubSeq(Corpus, i + 3, SetMin(Closings(i)) - 1))
OnOneLine(i) == \A m \in i..SetMin(Closings(i)) : Corpus[m] # NL
CrashPatternsMatched == check_patterns(Corpus, crash_patterns).matches

HasPair(first, second) ==
    \E i \in 1..(Len(filename) - 1) :
        filename[i] \in first /\ filename[i + 1] \in second
HasDU == HasPair({"D", "d"}, {"U", "u"})
HasCU == HasPair({"C", "c"}, {"U", "u"})
HasUE == HasPair({"U", "u"}, {"E", "e"})

\* C14: the component label is 'DU' when the filename holds 'DU' in any
\* letter case, else 'CU' when it holds 'CU', else 'UE' when it holds 'UE',
\* else 'Unknown'; it is always one of the four.
C14_ComponentByPriority ==
    component # "" =>
        /\ component \in {"DU", "CU", "UE", "Unknown"}
        /\ component = IF HasDU THEN "DU"
                       ELSE IF HasCU THEN "CU"
                       ELSE IF HasUE THEN "UE"
                       ELSE "Unknown"

C14_DuOverCuReached ==
    /\ component = "DU"
    /\ HasCU
    /\ \E i \in 1..Len(filename) : filename[i] = "d"

C16_TwoCopiesAgree ==
    /\ LogClassifier = LogAnalyzer
    /\ result # None =>
          LogClassifier_classify_severity(LogClassifier, log_data) = result

C16_BoundaryAgreedReached ==
    /\ Returned /\ NoTierStep /\ ~SuccessTier /\ UeSubstrings
    /\ UeFailureCount = 10
    /\ LogClassifier_classify_severity(LogClassifier, log_data).severity = 2
    /\ result.severity = 2

\* C17: without a Crash-tier match and with fewer than 2 success
\* sub-signals, a ConnectionFailure-tier match gives severity 3 with
\* confidence 0.85, also when Abnormal-tier patterns match, when one
\* Success-tier pattern matched and when the metadata error_type is not empty.
C17_ConnectionFailureTier ==
    (Returned /\ ~CrashTier /\ SubSignals < 2 /\ ConnectionFailureTier)
    => Has(3, 85)

C17_FailureOverAbnormalReached ==
    /\ Returned /\ ~CrashTier /\ SubSignals < 2 /\ ConnectionFailureTier
    /\ AbnormalTier /\ SuccessTier /\ ErrorType # ""
    /\ Has(3, 85)

\* C18: without a Crash-tier match, with fewer than 2 success sub-signals and
\* without a ConnectionFailure-tier match, an Abnormal-tier match gives
\* severity 2 with confidence 0.70, before the repeated-connection heuristic,
\* the metadata fallback and the residual success fallback.
C18_AbnormalTier ==
    (Returned /\ ~CrashTier /\ SubSignals < 2 /\ ~ConnectionFailureTier
        /\ AbnormalTier)
    => Has(2, 70)

C18_AbnormalOverHeuristicReached ==
    /\ Returned /\ ~CrashTier /\ ~SuccessTier /\ ~ConnectionFailureTier
    /\ AbnormalTier
    /\ UeSubstrings /\ UeFailureCount > 10
    /\ ErrorType # ""
    /\ Has(2, 70)

\* C19 as stated: when steps 1 to 4 do not fire, no success signal is present
\* and the UE stream holds more than 10 connect failures, the verdict is
\* severity 3 with confidence 0.80 also for a non-empty metadata error_type.
C19_ManyFailuresOverMetadata ==
    (Returned /\ NoTierStep /\ ~SuccessTier /\ UeFailureCount > 10
        /\ ErrorType # "")
    => Has(3, 80)

\* C19 amended: the same, for a UE stream that holds the substrings
\* "connect() to" and "failed, errno".
C19_HeuristicOverMetadata ==
    (Returned /\ NoTierStep /\ ~SuccessTier /\ UeFailureCount > 10
        /\ UeSubstrings /\ ErrorType # "")
    => Has(3, 80)

C19_HeuristicWithErrorTypeReached ==
    /\ Returned /\ NoTierStep /\ ~SuccessTier /\ UeFailureCount > 10
    /\ UeSubstrings
    /\ Metadata = MetaFull
    /\ Has(3, 80) /\ ~Has(2, 50)

\* C20: with one Success-tier signal (a Success-tier match below the
\* two-signal threshold), more than 10 connect failures in the UE stream and
\* no other tier matching, the verdict is not ConnectionFailure: it is
\* severity 2 with confidence 0.50 when the metadata error_type is not empty
\* and severity 0 with confidence 0.70 otherwise.
C20_NoHeuristicAfterSuccess ==
    (Returned /\ SuccessTier /\ SubSignals < 2
        /\ ~CrashTier /\ ~ConnectionFailureTier /\ ~AbnormalTier
        /\ UeFailureCount > 10)
    => /\ result.severity # 3
       /\ IF ErrorType # "" THEN Has(2, 50) ELSE Has(0, 70)

C20_SuccessBlocksHeuristicReached ==
    /\ Returned /\ SuccessTier /\ SubSignals < 2
    /\ ~CrashTier /\ ~ConnectionFailureTier /\ ~AbnormalTier
    /\ UeFailureCount > 10 /\ UeSubstrings
    /\ ErrorType # ""
    /\ Has(2, 50)

\* The value under the key 'ue.stdout.log', and the other streams.
NamedUeStream ==
    IF UeLogItems(log_data) = <<>> THEN <<>> ELSE UeLogItems(log_data)[1].text
OtherStreams ==
    IF "logs" \in DOMAIN log_data
    THEN SelectSeq(log_data["logs"], LAMBDA it : it.key # "ue.stdout.log")
    ELSE <<>>
ManyConnectFailures(text) ==
    /\ str_in(<<"connect", "()", " to">>, text)
    /\ str_in(<<"failed", ", errno">>, text)
    /\ re_findall_count(ConnectFailedExpr, text, 1) > 10

\* C21: the repeated-connection rule (severity 3, confidence 0.80) fires
\* only for a bundle whose stream named 'ue.stdout.log' holds, by itself, the
\* two substrings and more than 10 connect failures, and the count of the
\* evidence is the count of that stream; a bundle without that stream never
\* gets this verdict, whatever its other streams hold.
C21_OnlyUeStreamCounts ==
    Returned =>
        /\ Has(3, 80) <=>
              /\ NoTierStep /\ ~SuccessTier
              /\ UeLogItems(log_data) # <<>>
              /\ ManyConnectFailures(NamedUeStream)
        /\ Has(3, 80) =>
              result.evidence =
                  <<ToString(re_findall_count(ConnectFailedExpr, NamedUeStream, 1))
                    \o " connection attempts failed">>

C21_FailuresInOtherStreamReached ==
    /\ Returned /\ NoTierStep /\ ~SuccessTier
    /\ UeLogItems(log_data) = <<>>
    /\ \E n \in 1..Len(OtherStreams) : ManyConnectFailures(OtherStreams[n].text)
    /\ ErrorType = ""
    /\ Has(0, 30)

\* Whether atoms[k..] match the text from position i on when a repetition may
\* run over line breaks.
RECURSIVE SpanningMatch(_, _, _, _)
SpanningMatch(atoms, k, text, i) ==
    IF k > Len(atoms) THEN TRUE
    ELSE IF atoms[k].k = "lit"
    THEN /\ i <= Len(text)
         /\ Lower(text[i]) = Lower(atoms[k].s)
         /\ SpanningMatch(atoms, k + 1, text, i + 1)
    ELSE \E j \in i..(Len(text) + 1) : SpanningMatch(atoms, k + 1, text, j)
FiresAcrossLines(patterns) ==
    \E n \in 1..Len(patterns) : \E i \in 1..(Len(Corpus) + 1) :
        SpanningMatch(patterns[n].atoms, 1, Corpus, i)

\* C22: a tier fires exactly when one of its patterns matches the corpus
\* taken as one multi-line string, the parts A and B of a pattern A.*B
\* possibly on different lines; so a corpus with 'Assertion' on one line and
\* 'failed' on a later one is a crash (severity 1, confidence 0.95).
C22_TierFiresAcrossLines ==
    Returned =>
        /\ \A tier \in {crash_patterns, success_patterns, ue_failure_patterns,
                         abnormal_patterns} :
              check_patterns(Corpus, tier).any = FiresAcrossLines(tier)
        /\ FiresAcrossLines(crash_patterns) => Has(1, 95)

\* The bundle with the text of every stream in lower case.
LoweredText(text) == [i \in 1..Len(text) |-> Lower(text[i])]
LoweredItem(it) ==
    [it EXCEPT !.text = LoweredText(it.text),
               !.items = [n \in 1..Len(it.items) |-> LoweredText(it.items[n])]]
Lowered(d) ==
    IF "logs" \in DOMAIN d
    THEN [d EXCEPT !["logs"] = [n \in 1..Len(d["logs"]) |-> LoweredItem(d["logs"][n])]]
    ELSE d

\* C23: the severity and the confidence of the verdict do not change when
\* the letter case of the corpus changes: the bundle with its streams in
\* lower case gets the severity and the confidence of the bundle itself.
C23_VerdictCaseInvariant ==
    Returned =>
        LET r == classify_severity(analyzer, Lowered(log_data))
        IN /\ r.exc = ""
           /\ r.severity = result.severity
           /\ r.confidence = result.confidence

\* The (severity, confidence) pair of each rule of the cascade, by the
\* summary the rule writes.
RulePairs ==
    ("component crash in" :> <<1, 95>>)
 @@ ("no error, UE connected and got an IP in" :> <<0, 90>>)
 @@ ("UE connection failure detected in module" :> <<3, 85>>)
 @@ ("component abnormal in" :> <<2, 70>>)
 @@ ("UE cannot connect to DU, retries" :> <<3, 80>>)
 @@ ("possibly abnormal, config error" :> <<2, 50>>)
 @@ ("no error, signs of a successful connection" :> <<0, 70>>)
 @@ ("cannot decide, log information insufficient" :> <<0, 30>>)
VerdictPairs ==
    {<<1, 95>>, <<0, 90>>, <<3, 85>>, <<2, 70>>, <<3, 80>>, <<2, 50>>, <<0, 70>>,
     <<0, 30>>}
RecordOfResult == analyze_record("case_1.json", JsonObject(log_data), result)

\* C24: every verdict of classify_severity has the (severity, confidence)
\* pair of the rule that produced it, one of the eight pairs (1,0.95),
\* (0,0.90), (3,0.85), (2,0.70), (3,0.80), (2,0.50), (0,0.70), (0,0.30), with
\* the confidence in [0,1]; the record analyze_file makes of the outcome has
\* one of these pairs, or (-1,0.0) when the classification raised.
C24_FixedConfidencePerRule ==
    result # None =>
        /\ Returned =>
              /\ <<result.severity, result.confidence>> \in VerdictPairs
              /\ <<result.severity, result.confidence>> = RulePairs[result.root_cause[1]]
              /\ result.confidence \in 0..100
        /\ <<RecordOfResult.severity_stage, RecordOfResult.confidence>> =
              IF Returned THEN <<result.severity, result.confidence>> ELSE <<-1, 0>>

C24_ProcessingErrorPairReached ==
    /\ result # None /\ result.exc = "TypeError"
    /\ RecordOfResult.severity_stage = -1 /\ RecordOfResult.confidence = 0
    /\ RecordOfResult.component = "Error"

\* The labels in the order of priority, and whether a pattern of the
\* category with a label matches the text.
PriorityOrder ==
    <<"GTP/Interface Creation Failure", "Radio Frequency/ARFCN Issue",
      "Encoding/Buffer Overflow", "DNS/Address Resolution Error",
      "Configuration/Syntax Error", "SCTP Connection Refused",
      "General Component Crash/Assertion", "Network/PLMN/Cell ID Mismatch",
      "RF/Hardware/Feature Missing">>
CategoryMatches(label) ==
    \E n \in 1..Len(CategoryOrder) :
        /\ CategoryOrder[n].label = label
        /\ AnyMatches(CategoryOrder[n].patterns, log_text)
Matching == {k \in 1..Len(PriorityOrder) : CategoryMatches(PriorityOrder[k])}

NonEmptyEvidence(verdict) ==
    /\ Len(verdict.evidence) >= 1
    /\ \A n \in 1..Len(verdict.evidence) : verdict.evidence[n] # ""

\* C26: every verdict classify_severity returns, in LogAnalyzer and in
\* LogClassifier, has at least one evidence entry, and no entry is the empty
\* string.
C26_EvidenceNeverEmpty ==
    Returned =>
        /\ NonEmptyEvidence(result)
        /\ NonEmptyEvidence(LogClassifier_classify_severity(LogClassifier, log_data))

C26_MarkerForEmptyBundleReached ==
    /\ Returned /\ log_data = EmptyDict
    /\ result.evidence = <<"Insufficient log information">>

\* The lines of a text (by the number of line breaks before them) on which
\* 'connect()' is followed by 'failed', and the 'failed' tokens of the text.
LineOf(text, i) == Cardinality({m \in 1..(i - 1) : text[m] = NL})
FailureLines(text) ==
    {LineOf(text, i) : i \in
        {i \in 1..(Len(text) - 1) :
            /\ text[i] = "connect" /\ text[i + 1] = "()"
            /\ \E j \in (i + 2)..Len(text) :
                  /\ text[j] = "failed"
                  /\ LineOf(text, j) = LineOf(text, i)}}
FailedTokens(text) == {j \in 1..Len(text) : text[j] = "failed"}

\* C27: the connect-failure count is the number of lines of the UE stream
\* on which 'connect()' is followed by 'failed', several failures on one line
\* counting once; where the rule is reached (steps 1 to 4 do not fire, no
\* success signal, the two substrings present) it fires exactly when more
\* than 10 such lines exist, and its evidence carries that number.
C27_CountIsFailureLines ==
    Returned =>
        /\ UeFailureCount = Cardinality(FailureLines(NamedUeStream))
        /\ (/\ NoTierStep /\ ~SuccessTier
            /\ str_in(<<"connect", "()", " to">>, NamedUeStream)
            /\ str_in(<<"failed", ", errno">>, NamedUeStream))
           => /\ Has(3, 80) <=> Cardinality(FailureLines(NamedUeStream)) > 10
              /\ Has(3, 80) =>
                    result.evidence =
                        <<ToString(Cardinality(FailureLines(NamedUeStream)))
                          \o " connection attempts failed">>

C27_TwoFailuresOnALineReached ==
    /\ Returned /\ NoTierStep /\ ~SuccessTier
    /\ str_in(<<"connect", "()", " to">>, NamedUeStream)
    /\ str_in(<<"failed", ", errno">>, NamedUeStream)
    /\ Cardinality(FailedTokens(NamedUeStream)) > 10
    /\ Cardinality(FailureLines(NamedUeStream)) <= 10
    /\ ErrorType = ""
    /\ Has(0, 30)

\* The records and the copies the organizer made of the n-th file.
OrganizedRecords(n) ==
    {i \in 1..Len(results) : results[i].source_file = PathOf(n)}
OrganizedFolders(n) ==
    {sev \in 0..3 : <<organize_severity_labels[sev], PathOf(n)>> \in dest}

\* C28: at every point of the loop of classify_and_organize, file_counts[s]
\* is the number of records with severity_stage s (as analyze_report counts
\* them in the written report), every record has a severity in 0..3 and the
\* folder of that severity, every file processed without an exception has
\* exactly one record and one copy, in the folder of its record, and a file
\* whose loading, classification or copy raised has no record and no count
\* (and no copy when it raised before the copy).
C28_CountsMatchRecords ==
    driver = "classify_and_organize" =>
        /\ \A sev \in 0..3 :
              file_counts[sev] =
                  Cardinality({i \in 1..Len(results) : results[i].severity_stage = sev})
        /\ \A i \in 1..Len(results) :
              /\ results[i].severity_stage \in 0..3
              /\ results[i].destination_folder =
                    organize_severity_labels[results[i].severity_stage]
              /\ <<results[i].destination_folder, results[i].source_file>> \in dest
        /\ \A n \in 1..position :
              IF Malformed(files[n])
              THEN OrganizedRecords(n) = {} /\ OrganizedFolders(n) = {}
              ELSE IF PathOf(n) \in uncopied
              THEN OrganizedRecords(n) = {}
              ELSE /\ Cardinality(OrganizedRecords(n)) = 1
                   /\ Cardinality(OrganizedFolders(n)) = 1
        /\ \A n \in (position + 1)..Len(files) :
              OrganizedRecords(n) = {} /\ OrganizedFolders(n) = {}
        /\ report.saved =>
              analyze_report_severity_counts(report.records) = file_counts

C28_FailedAndCopiedFilesReached ==
    /\ driver = "classify_and_organize" /\ report.saved
    /\ \E n \in 1..Len(files) : Malformed(files[n])
    /\ uncopied # {}
    /\ Len(report.records) = 1
    /\ file_counts[1] = 1

\* The streams of the case_output at hand, and the placeholder texts.
MergedStreams == case_output["logs"]
Placeholders ==
    {<<"Log file not found.">>,
     <<"Error", " reading log: ", "[Errno 13] Permission denied">>}
AllPlaceholders ==
    /\ case_output # EmptyDict
    /\ Len(MergedStreams) = 3
    /\ \A n \in 1..3 : MergedStreams[n].text \in Placeholders
MergedVerdict == classify_severity(LogAnalyzer, case_output)

\* C29: a bundle process_batch wrote whose three streams all hold
\* placeholder texts ('Log file not found.', 'Error reading log: ...') is
\* classified by no pattern tier: its verdict is the metadata fallback
\* (severity 2, confidence 0.50) or the uncertain case (severity 0,
\* confidence 0.30).
C29_PlaceholdersAreNoEvidence ==
    AllPlaceholders =>
        /\ MergedVerdict.exc = ""
        /\ <<MergedVerdict.severity, MergedVerdict.confidence>>
              \in {<<2, 50>>, <<0, 30>>}

\* The case items of the batch whose filename yields a case number.
MergedItems == IF cases_file.kind = "array" THEN cases_file.value ELSE <<>>
Numbered == {i \in 1..Len(MergedItems) : case_match(MergedItems[i]).found}

\* C30: when process_batch has gone through the case items, the output
\* directory holds one file per case item whose filename yields a case
\* number, each item's output in a file of its own.
C30_OneOutputFilePerCase ==
    merge_position = Len(MergedItems) =>
        /\ Cardinality(output_dir) = Cardinality(Numbered)
        /\ \A i \in Numbered : \E f \in output_dir : f.holds = i

====
